---- MODULE Spec2Model ----
(***************************************************************************)
(* Model of llmmerge's structural diff engine (src/llmmerge/utils.py):     *)
(* SimpleASTAnalyzer.get_line_context, FileDiffAnalyzer.compare_files and  *)
(* FileDiffAnalyzer.get_full_context_string.                               *)
(*                                                                         *)
(* A source text is a non-empty sequence of lines (str.split('\n') never   *)
(* returns an empty list; the empty string is the one-line text <<Blank>>).*)
(* A line is a record [tok, ind, name]: its kind, its indentation column   *)
(* and the identifier that makes its text distinct.                        *)
(*   blank  the empty line                                                 *)
(*   stmt   a simple statement                                             *)
(*   def    "def name():"  opening an indented block                       *)
(*   defi   "def name(): pass"  a definition on one line                   *)
(*   class  "class name:"  opening an indented block                       *)
(*   bad    a line with an unbalanced parenthesis                          *)
(* ast.parse is modelled by Valid/ParseTree below: Python's indentation    *)
(* rules decide whether the text parses, and the definition nodes carry    *)
(* lineno and end_lineno as the parser assigns them.                       *)
(***************************************************************************)
EXTENDS Integers, Sequences, FiniteSets, TLC

VARIABLES pc, source_code, context, block, old_file, new_file, locals, result

\* The merge driver's process: its arguments, the files it reads and
\* writes, its environment and how it ended.
VARIABLES argv, fs, env, status

shell == <<argv, fs, env, status>>

vars == <<pc, source_code, context, block, old_file, new_file, locals, result, shell>>

(* ------------------------------ bounds --------------------------------- *)
MaxLines == 4
MaxIndent == 2
MaxLevel == 2
MaxTotal == 4
MaxLongLines == 22
MaxExtractTotal == 3
MaxCode == 2
MaxArgs == 5

(* --------------------------- source texts ------------------------------ *)
None == "None"

Names == {"a", "b"}
Stmts == {"s1", "s2"}

Blank == [tok |-> "blank", ind |-> 0, name |-> ""]
Bad == [tok |-> "bad", ind |-> 0, name |-> "("]

Line ==
    {Blank, Bad}
    \cup [tok : {"stmt"}, ind : 0..MaxIndent, name : Stmts]
    \cup [tok : {"def", "defi", "class"}, ind : 0..MaxIndent, name : Names]

Max(S) == CHOOSE x \in S : \A y \in S : y <= x
Min(S) == CHOOSE x \in S : \A y \in S : x <= y

IsHeader(l) == l.tok \in {"def", "class"}
IsDef(l) == l.tok \in {"def", "defi", "class"}

NonBlank(lines) == {i \in 1..Len(lines) : lines[i].tok # "blank"}

\* The non-blank line before line i, 0 if there is none.
Prev(lines, i) ==
    LET before == {j \in NonBlank(lines) : j < i}
    IN  IF before = {} THEN 0 ELSE Max(before)

\* The block headers whose indented block contains line i.
Ancestors(lines, i) ==
    {j \in 1..(i - 1) :
        /\ IsHeader(lines[j])
        /\ lines[j].ind < lines[i].ind
        /\ \A k \in (j + 1)..(i - 1) :
              lines[k].tok # "blank" => lines[k].ind > lines[j].ind}

\* The indentation stack of the tokenizer after line p.
StackAt(lines, p) ==
    {lines[p].ind} \cup {lines[j].ind : j \in Ancestors(lines, p)}

\* The indentation rules up to the last line typed so far.
ValidPrefix(lines) ==
    /\ \A i \in 1..Len(lines) : lines[i].tok # "bad"
    /\ \A i \in NonBlank(lines) :
          LET p == Prev(lines, i)
          IN  IF p = 0 THEN lines[i].ind = 0
              ELSE IF IsHeader(lines[p]) THEN lines[i].ind > lines[p].ind
              ELSE lines[i].ind \in StackAt(lines, p)

\* ast.parse(source_code) returns a tree; otherwise it raises SyntaxError.
Valid(lines) ==
    /\ ValidPrefix(lines)
    /\ NonBlank(lines) # {} => ~IsHeader(lines[Max(NonBlank(lines))])

\* An end line that also takes in the blank lines after the body.
EndLinenoWithBlanks(lines, i) ==
    IF lines[i].tok = "defi" THEN i
    ELSE Max({i} \cup {j \in (i + 1)..Len(lines) :
                 \A k \in NonBlank(lines) :
                     (i < k /\ k <= j) => lines[k].ind > lines[i].ind})

\* node.end_lineno: the line of the last statement of the definition's body.
EndLineno(lines, i) ==
    IF lines[i].tok = "defi" THEN i
    ELSE Max({i} \cup {j \in NonBlank(lines) :
                 /\ j > i
                 /\ \A k \in NonBlank(lines) :
                       (i < k /\ k <= j) => lines[k].ind > lines[i].ind})

\* The parent definition of the node at line i, 0 for the module.
Parent(lines, i) ==
    LET anc == Ancestors(lines, i)
    IN  IF anc = {} THEN 0 ELSE Max(anc)

\* ast.parse: ok = FALSE stands for SyntaxError; a node is named by its lineno.
ParseTree(lines) ==
    LET ok == Valid(lines)
        ds == IF ok THEN {i \in 1..Len(lines) : IsDef(lines[i])} ELSE {}
    IN  [ok |-> ok,
         defs |-> ds,
         node |-> [i \in ds |->
                     [kind |-> IF lines[i].tok = "class" THEN "ClassDef" ELSE "FunctionDef",
                      name |-> lines[i].name,
                      lineno |-> i,
                      end_lineno |-> EndLineno(lines, i),
                      parent |-> Parent(lines, i)]]]

\* The elements of a set of line numbers in increasing order.
RECURSIVE SortedSeq(_)
SortedSeq(S) ==
    IF S = {} THEN <<>> ELSE <<Min(S)>> \o SortedSeq(S \ {Min(S)})

\* ast.iter_child_nodes restricted to definitions: children in source order.
ChildNodes(tree, n) ==
    SortedSeq({d \in tree.defs : tree.node[d].parent = n})

RECURSIVE WalkQueue(_, _)
WalkQueue(tree, todo) ==
    IF todo = <<>> THEN <<>>
    ELSE <<Head(todo)>> \o WalkQueue(tree, Tail(todo) \o ChildNodes(tree, Head(todo)))

\* ast.walk(node): breadth-first, the node itself first.
WalkFrom(tree, n) == WalkQueue(tree, <<n>>)

RECURSIVE ReverseSeq(_)
ReverseSeq(s) ==
    IF s = <<>> THEN <<>> ELSE ReverseSeq(Tail(s)) \o <<Head(s)>>

\* A traversal that yields every definition before the ones enclosing it.
WalkInnerFirst(tree) == ReverseSeq(Tail(WalkFrom(tree, 0)))

\* ast.walk(tree) without the module node, which has no lineno.
Walk(tree) == Tail(WalkFrom(tree, 0))

(* ------------------------- get_line_context ---------------------------- *)
\* context[i] as initialised for every line (utils.py 25-31 and 59-65).
BasicContext(lines) ==
    [i \in 1..Len(lines) |->
        [content |-> lines[i], function |-> None, class |-> None, scope |-> "module"]]

\* One iteration of the loop over ast.walk(tree): the node overwrites the
\* scope fields of every line of its span that is a key of context.
VisitNode(ctx, n) ==
    [l \in DOMAIN ctx |->
        IF n.lineno <= l /\ l <= n.end_lineno
        THEN IF n.kind = "ClassDef"
             THEN [ctx[l] EXCEPT !.class = n.name, !.scope = "class"]
             ELSE [ctx[l] EXCEPT !.function = n.name, !.scope = "function"]
        ELSE ctx[l]]

RECURSIVE VisitAll(_, _, _)
VisitAll(ctx, tree, order) ==
    IF order = <<>> THEN ctx
    ELSE VisitAll(VisitNode(ctx, tree.node[Head(order)]), tree, Tail(order))

\* get_line_context without the except branch: the empty dict on SyntaxError.
get_line_context_uncaught(lines) ==
    LET tree == ParseTree(lines)
    IN  IF tree.ok
        THEN VisitAll(BasicContext(lines), tree, Walk(tree))
        ELSE <<>>

get_line_context(lines) ==
    LET tree == ParseTree(lines)
    IN  IF tree.ok
        THEN VisitAll(BasicContext(lines), tree, Walk(tree))
        ELSE BasicContext(lines)

(* ------------------------------ texts ---------------------------------- *)
\* A rendered text is the sequence of its lines; the empty string is the
\* text of one empty line, and '\n'.join concatenates the line sequences.
NoDesc == [what |-> "", fn |-> None, cls |-> None, at |-> 0]

TextLine(t) ==
    [t |-> t, num |-> 0, mark |-> FALSE, content |-> Blank,
     label |-> "", level |-> 0, desc |-> NoDesc,
     range |-> <<0, 0, 0, 0>>, names |-> <<>>]

EmptyText == TextLine("empty")
EmptyStr == <<EmptyText>>
Delimiter == TextLine("delim")

RECURSIVE Join(_)
Join(strs) ==
    IF strs = <<>> THEN EmptyStr
    ELSE IF Len(strs) = 1 THEN Head(strs)
    ELSE Head(strs) \o Join(Tail(strs))

\* The line numbers a..b in order (empty when a > b).
Range(a, b) == [k \in 1..(IF b >= a THEN b - a + 1 ELSE 0) |-> a + k - 1]

\* The first element of seq that is in S, 0 if there is none.
FirstIn(seq, S) ==
    LET hits == {k \in 1..Len(seq) : seq[k] \in S}
    IN  IF hits = {} THEN 0 ELSE seq[Min(hits)]

MaxOf(a, b) == IF a >= b THEN a ELSE b
MinOf(a, b) == IF a <= b THEN a ELSE b

\* range(max(0, start_line - 1), min(len(lines), end_line)) as line numbers.
Span(lines, start_line, end_line) ==
    Range(MaxOf(0, start_line - 1) + 1, MinOf(Len(lines), end_line))

(* --------------------- get_full_context_string ------------------------- *)
Level0Window == 5
Level1Window == 20
LargeContext == 50

Selection(ls, what, fn, cls, at) ==
    [lines |-> ls, desc |-> [what |-> what, fn |-> fn, cls |-> cls, at |-> at]]

NoSelection == [lines |-> <<>>, desc |-> NoDesc]

NodesOf(tree, kind, name) ==
    {d \in tree.defs : tree.node[d].kind = kind /\ tree.node[d].name = name}

\* Level 2+: the entire file (utils.py 270-273).
SelectEntireFile(lines) ==
    Selection(Range(1, Len(lines)), "entire file", None, None, 0)

\* The loop of utils.py 282-290 without its break: the last class of the name.
SelectLastClass(lines, tree, target_class) ==
    LET c == FirstIn(ReverseSeq(Walk(tree)), NodesOf(tree, "ClassDef", target_class))
    IN  IF c = 0 THEN NoSelection
        ELSE Selection(Span(lines, tree.node[c].lineno, tree.node[c].end_lineno),
                       "class (parent context)", None, target_class, 0)

\* Level 1, function in a class: the first class of that name in walk order
\* (utils.py 280-290).
SelectParentClass(lines, tree, target_class) ==
    LET c == FirstIn(Walk(tree), NodesOf(tree, "ClassDef", target_class))
    IN  IF c = 0 THEN NoSelection
        ELSE Selection(Span(lines, tree.node[c].lineno, tree.node[c].end_lineno),
                       "class (parent context)", None, target_class, 0)

\* The definitions no other definition's span starts before and ends after
\* (utils.py 295-310), sorted by line number.
ModuleItems(tree) ==
    SortedSeq({d \in tree.defs :
        ~\E p \in tree.defs :
            /\ p # d
            /\ tree.node[p].lineno <= tree.node[d].lineno
            /\ tree.node[d].lineno <= tree.node[p].end_lineno})

\* Level 1, function outside any class: the first top-level item of that
\* name with the item before and the item after it (utils.py 311-327).
SelectAroundFunction(lines, tree, target_function) ==
    LET module_items == ModuleItems(tree)
        named == {k \in 1..Len(module_items) :
                     tree.node[module_items[k]].name = target_function}
    IN  IF named = {} THEN NoSelection
        ELSE LET target_idx == Min(named) - 1
                 context_start == MaxOf(0, target_idx - 1)
                 context_end == MinOf(Len(module_items), target_idx + 2)
                 overall_start == tree.node[module_items[context_start + 1]].lineno
                 overall_end == tree.node[module_items[context_end]].end_lineno
             IN  Selection(Span(lines, overall_start, overall_end),
                           "module context around function", target_function, None, 0)

\* A window that starts at line_num: none of the lines before it.
SelectWindowAfter(lines, line_num, w, what) ==
    Selection(Range(line_num, MinOf(Len(lines), line_num + w)),
              what, None, None, line_num)

\* A window of w lines before and after line_num, clamped to the file
\* (utils.py 332-336 and 389-393).
SelectWindow(lines, line_num, w, what) ==
    Selection(Range(MaxOf(1, line_num - w), MinOf(Len(lines), line_num + w)),
              what, None, None, line_num)

SelectLevel1(lines, tree, ctx, line_num) ==
    IF ctx.class # None /\ ctx.function # None
    THEN SelectParentClass(lines, tree, ctx.class)
    ELSE IF ctx.function # None /\ ctx.class = None
    THEN SelectAroundFunction(lines, tree, ctx.function)
    ELSE SelectWindow(lines, line_num, Level1Window, "module context around line")

\* Level 0: the loop over ast.walk(tree) stops at the first node that is the
\* target class, or the target function when no class is named (utils.py
\* 343-385); within the class the first function of the target name in
\* ast.walk(node) narrows the span (utils.py 355-362).
SelectLevel0(lines, tree, ctx, line_num) ==
    LET target_class == ctx.class
        target_function == ctx.function
        hit == FirstIn(Walk(tree),
                  {d \in tree.defs :
                      \/ /\ tree.node[d].kind = "ClassDef"
                         /\ target_class # None
                         /\ tree.node[d].name = target_class
                      \/ /\ tree.node[d].kind = "FunctionDef"
                         /\ target_function # None
                         /\ tree.node[d].name = target_function
                         /\ target_class = None})
        found ==
            IF hit = 0 THEN NoSelection
            ELSE IF tree.node[hit].kind = "ClassDef"
            THEN LET child == IF target_function = None THEN 0
                              ELSE FirstIn(WalkFrom(tree, hit),
                                       NodesOf(tree, "FunctionDef", target_function))
                     n == IF child = 0 THEN tree.node[hit] ELSE tree.node[child]
                 IN  Selection(Span(lines, n.lineno, n.end_lineno),
                               IF target_function # None
                               THEN "function in class" ELSE "class",
                               target_function, target_class, 0)
            ELSE Selection(Span(lines, tree.node[hit].lineno, tree.node[hit].end_lineno),
                           "function", target_function, None, 0)
    IN  IF found.lines = <<>>
        THEN SelectWindow(lines, line_num, Level0Window, "lines around")
        ELSE found

SelectContext(lines, tree, ctx, line_num, level) ==
    IF level >= 2 THEN SelectEntireFile(lines)
    ELSE IF level = 1 THEN SelectLevel1(lines, tree, ctx, line_num)
    ELSE SelectLevel0(lines, tree, ctx, line_num)

\* The text of a source line that consists of the delimiter's 80 characters
\* (written here with a short stand-in).
RuleText == "--------"

\* A line rendered as its own text, without marker and line number.
bare_line(line_number, line_content, line_num) ==
    IF line_content.name = RuleText THEN Delimiter
    ELSE [TextLine("source") EXCEPT !.num = line_number, !.content = line_content]

\* f">>> {line_number:3d}: {line_content}" for the target line and
\* f"    {line_number:3d}: {line_content}" for the others (utils.py 404-409):
\* whatever the content, the rendered line begins with the marker.
source_line(line_number, line_content, line_num) ==
    [TextLine("source") EXCEPT !.num = line_number,
                               !.mark = (line_number = line_num),
                               !.content = line_content]

\* The rendering of the selection (utils.py 395-415): nothing is appended
\* for an empty selection, and the join of no lines is the empty string.
RenderContext(lines, sel, line_num, file_label, level) ==
    IF sel.lines = <<>> THEN EmptyStr
    ELSE
    <<EmptyText,
      [TextLine("title") EXCEPT !.label = file_label, !.level = level, !.desc = sel.desc],
      Delimiter>>
    \o (IF Len(sel.lines) > LargeContext
        THEN <<[TextLine("notice") EXCEPT !.num = Len(sel.lines), !.desc.at = line_num]>>
        ELSE <<>>)
    \o [k \in 1..Len(sel.lines) |->
          source_line(sel.lines[k], lines[sel.lines[k]], line_num)]
    \o <<Delimiter>>

ErrorText == <<TextLine("Error extracting context")>>

get_full_context_string(lines, ctx, line_num, file_label, level) ==
    IF lines = <<Blank>> THEN EmptyStr
    ELSE IF ~Valid(lines) THEN ErrorText
    ELSE RenderContext(lines,
                       SelectContext(lines, ParseTree(lines), ctx, line_num, level),
                       line_num, file_label, level)

(* ---------------------- difflib.SequenceMatcher ------------------------ *)
\* SequenceMatcher(None, a, b) as compare_files uses it (utils.py 116, 134).
\* Positions are 0-based and ranges half-open, as in Python.  With isjunk
\* None, and b shorter than the 200 lines at which autojunk starts, no line
\* is junk.

\* find_longest_match: of the longest blocks a[i:i+k] = b[j:j+k] inside
\* a[alo:ahi] and b[blo:bhi], the one starting earliest in a, then in b.
find_longest_match(a, b, alo, ahi, blo, bhi) ==
    LET blocks == {m \in (alo..(ahi - 1)) \X (blo..(bhi - 1)) \X (1..(ahi - alo)) :
                      /\ m[1] + m[3] <= ahi
                      /\ m[2] + m[3] <= bhi
                      /\ \A d \in 0..(m[3] - 1) : a[m[1] + d + 1] = b[m[2] + d + 1]}
        Better(m, n) ==
            \/ m[3] > n[3]
            \/ m[3] = n[3] /\ m[1] < n[1]
            \/ m[3] = n[3] /\ m[1] = n[1] /\ m[2] <= n[2]
    IN  IF blocks = {} THEN <<alo, blo, 0>>
        ELSE CHOOSE m \in blocks : \A n \in blocks : Better(m, n)

\* The loop of get_matching_blocks: the longest match, then the part to its
\* left and the part to its right; the result is sorted.
RECURSIVE matching_blocks(_, _, _, _, _, _)
matching_blocks(a, b, alo, ahi, blo, bhi) ==
    LET x == find_longest_match(a, b, alo, ahi, blo, bhi)
        i == x[1]
        j == x[2]
        k == x[3]
    IN  IF k = 0 THEN <<>>
        ELSE (IF alo < i /\ blo < j
              THEN matching_blocks(a, b, alo, i, blo, j) ELSE <<>>)
             \o <<x>>
             \o (IF i + k < ahi /\ j + k < bhi
                 THEN matching_blocks(a, b, i + k, ahi, j + k, bhi) ELSE <<>>)

\* Adjacent equal blocks are collapsed into one.
RECURSIVE non_adjacent(_, _)
non_adjacent(cur, blocks) ==
    IF blocks = <<>> THEN (IF cur[3] > 0 THEN <<cur>> ELSE <<>>)
    ELSE LET nxt == Head(blocks)
         IN  IF cur[1] + cur[3] = nxt[1] /\ cur[2] + cur[3] = nxt[2]
             THEN non_adjacent(<<cur[1], cur[2], cur[3] + nxt[3]>>, Tail(blocks))
             ELSE (IF cur[3] > 0 THEN <<cur>> ELSE <<>>)
                  \o non_adjacent(nxt, Tail(blocks))

get_matching_blocks(a, b) ==
    non_adjacent(<<0, 0, 0>>, matching_blocks(a, b, 0, Len(a), 0, Len(b)))
    \o <<(<<Len(a), Len(b), 0>>)>>

Opcode(tag, i1, i2, j1, j2) ==
    [tag |-> tag, i1 |-> i1, i2 |-> i2, j1 |-> j1, j2 |-> j2]

\* get_opcodes moving on to (ai, bj) instead of (ai + size, bj + size).
RECURSIVE opcodes_without_size(_, _, _)
opcodes_without_size(i, j, blocks) ==
    IF blocks = <<>> THEN <<>>
    ELSE LET ai == Head(blocks)[1]
             bj == Head(blocks)[2]
             size == Head(blocks)[3]
             tag == IF i < ai /\ j < bj THEN "replace"
                    ELSE IF i < ai THEN "delete"
                    ELSE IF j < bj THEN "insert"
                    ELSE ""
         IN  (IF tag # "" THEN <<Opcode(tag, i, ai, j, bj)>> ELSE <<>>)
             \o (IF size > 0
                 THEN <<Opcode("equal", ai, ai + size, bj, bj + size)>> ELSE <<>>)
             \o opcodes_without_size(ai, bj, Tail(blocks))

RECURSIVE opcodes_from(_, _, _)
opcodes_from(i, j, blocks) ==
    IF blocks = <<>> THEN <<>>
    ELSE LET ai == Head(blocks)[1]
             bj == Head(blocks)[2]
             size == Head(blocks)[3]
             tag == IF i < ai /\ j < bj THEN "replace"
                    ELSE IF i < ai THEN "delete"
                    ELSE IF j < bj THEN "insert"
                    ELSE ""
         IN  (IF tag # "" THEN <<Opcode(tag, i, ai, j, bj)>> ELSE <<>>)
             \o (IF size > 0
                 THEN <<Opcode("equal", ai, ai + size, bj, bj + size)>> ELSE <<>>)
             \o opcodes_from(ai + size, bj + size, Tail(blocks))

get_opcodes(a, b) == opcodes_from(0, 0, get_matching_blocks(a, b))

(* --------------------------- compare_files ----------------------------- *)
\* A file is the text it holds; <<>> is a path that cannot be read.
\* read_file returns the text, or "" when reading fails (utils.py 74-81).
read_file(file) == IF file = <<>> THEN <<Blank>> ELSE file

NoResult == [header |-> <<>>, changes |-> <<>>, summary |-> <<>>, full_output |-> <<>>]
NoLocals == [old_content |-> <<>>, new_content |-> <<>>,
             old_context |-> <<>>, new_context |-> <<>>, opcodes |-> <<>>]

error_msg == <<TextLine("Could not read one or both files")>>
NoDifferences == <<TextLine("No differences found!")>>

header_lines(level) ==
    << <<TextLine("Analyzing file structure...")>>,
       <<EmptyText, TextLine("Comparing:")>>,
       <<TextLine("  Old: old_file")>>,
       <<TextLine("  New: new_file")>>,
       <<[TextLine("  Context Level:") EXCEPT !.level = level]>>,
       <<TextLine("============")>> >>

\* f"  {line_num:3d}: {line_content}"
line_str(lines, line_num) ==
    <<[TextLine("line") EXCEPT !.num = line_num, !.content = lines[line_num]]>>

\* context.get(line_num, {}): an absent key reads as a context without names.
context_get(ctxs, line_num) ==
    IF line_num \in DOMAIN ctxs THEN ctxs[line_num]
    ELSE [content |-> Blank, function |-> None, class |-> None, scope |-> None]

\* The loop over the lines i..hi-1 of one side of a change (utils.py 161-176
\* and 187-202): every line is listed, and a context is rendered for the
\* first line of each (class, function, level) key that names a class or a
\* function or has level > 0.
\* One iteration: the line is appended to the side's lines and to the
\* change's output, and the context, if one is shown, to the side's contexts
\* and to the output (utils.py 166-168 and 175-176).
side_append(line, shown, rest) ==
    [content |-> <<line>> \o rest.content,
     context |-> shown \o rest.context,
     output |-> <<line>> \o shown \o rest.output]

RECURSIVE side_loop(_, _, _, _, _, _, _)
side_loop(lines, ctxs, i, hi, file_label, level, contexts_shown) ==
    IF i >= hi THEN [content |-> <<>>, context |-> <<>>, output |-> <<>>]
    ELSE LET line_num == i + 1
             ctx == context_get(ctxs, line_num)
             context_key == <<ctx.class, ctx.function, level>>
             show == /\ context_key \notin contexts_shown
                     /\ (ctx.class # None \/ ctx.function # None \/ level > 0)
         IN  side_append(
                 line_str(lines, line_num),
                 IF show
                 THEN <<get_full_context_string(lines, ctx, line_num, file_label, level)>>
                 ELSE <<>>,
                 side_loop(lines, ctxs, i + 1, hi, file_label, level,
                           IF show THEN contexts_shown \cup {context_key}
                           ELSE contexts_shown))

\* The tag as the matcher gives it, not upper-cased.
SameTag(tag) == tag

\* tag.upper() (utils.py 142 and 152).
UpperTag(tag) ==
    IF tag = "replace" THEN "REPLACE"
    ELSE IF tag = "delete" THEN "DELETE"
    ELSE IF tag = "insert" THEN "INSERT"
    ELSE "EQUAL"

\* A side the opcode's tag leaves out: its content and its context stay ""
\* and nothing is appended to the output (utils.py 145-148).
no_side == [content |-> <<EmptyStr>>, context |-> <<EmptyStr>>, output |-> <<>>]

\* The change entry of one non-equal opcode, given what the loops over its
\* two sides collected (utils.py 141-153, 178-179 and 204-208).
entry_of(op, removed, added) ==
    [type |-> UpperTag(op.tag),
     old_lines |-> <<op.i1 + 1, op.i2>>,
     new_lines |-> <<op.j1 + 1, op.j2>>,
     removed_content |-> Join(removed.content),
     added_content |-> Join(added.content),
     removed_context |-> Join(removed.context),
     added_context |-> Join(added.context),
     formatted_output |->
         Join(<< <<EmptyText,
                   [TextLine("change") EXCEPT !.label = UpperTag(op.tag),
                        !.range = <<op.i1 + 1, op.i2, op.j1 + 1, op.j2>>]>>,
                 <<TextLine("----")>> >>
              \o (IF op.tag \in {"delete", "replace"}
                  THEN << <<TextLine("REMOVED:")>> >> \o removed.output ELSE <<>>)
              \o (IF op.tag \in {"insert", "replace"}
                  THEN << <<TextLine("ADDED:")>> >> \o added.output ELSE <<>>))]

\* The change entry of one non-equal opcode (utils.py 138-209).
change_entry(op, old_lines, new_lines, old_context, new_context, level) ==
    entry_of(op,
             IF op.tag \in {"delete", "replace"}
             THEN side_loop(old_lines, old_context, op.i1, op.i2, "OLD FILE", level, {})
             ELSE no_side,
             IF op.tag \in {"insert", "replace"}
             THEN side_loop(new_lines, new_context, op.j1, op.j2, "NEW FILE", level, {})
             ELSE no_side)

\* The sequences that list every element of S once: the orders in which
\* iterating a Python set of strings may yield its elements.
Orderings(S) ==
    {q \in [1..Cardinality(S) -> S] : \A x \in S : \E k \in DOMAIN q : q[k] = x}

\* The function names of the lines that are in no class.
FunctionNamesOutsideClasses(ctxs) ==
    {ctxs[l].function : l \in {m \in DOMAIN ctxs : ctxs[m].class = None}} \ {None}

\* old_functions, new_functions (utils.py 492-505): the function names of
\* the context's values.
FunctionNames(ctxs) ==
    {ctxs[l].function : l \in DOMAIN ctxs} \ {None}

ClassNames(ctxs) ==
    {ctxs[l].class : l \in DOMAIN ctxs} \ {None}

\* _get_summary_string (utils.py 479-521); added and removed are the orders
\* in which ', '.join iterates the two set differences.
get_summary_string(old_lines, new_lines, old_context, new_context, added, removed) ==
    LET difference == Len(new_lines) - Len(old_lines)
    IN  <<EmptyText,
          TextLine("============"),
          TextLine("SUMMARY"),
          TextLine("============"),
          [TextLine("Old file: lines") EXCEPT !.num = Len(old_lines)],
          [TextLine("New file: lines") EXCEPT !.num = Len(new_lines)],
          [TextLine("Difference: lines") EXCEPT !.num = difference,
               !.label = IF difference >= 0 THEN "+" ELSE "-"],
          [TextLine("Functions:") EXCEPT
               !.range = <<Cardinality(FunctionNames(old_context)),
                           Cardinality(FunctionNames(new_context)), 0, 0>>],
          [TextLine("Classes:") EXCEPT
               !.range = <<Cardinality(ClassNames(old_context)),
                           Cardinality(ClassNames(new_context)), 0, 0>>]>>
        \o (IF added # <<>>
            THEN <<[TextLine("Added functions:") EXCEPT !.names = added]>> ELSE <<>>)
        \o (IF removed # <<>>
            THEN <<[TextLine("Removed functions:") EXCEPT !.names = removed]>> ELSE <<>>)

\* The test of utils.py 98 with "and" for "or".
cannot_read_both(old_content, new_content) ==
    old_content = <<Blank>> /\ new_content = <<Blank>>

\* "if not old_content or not new_content" (utils.py 98).
cannot_read(old_content, new_content) ==
    old_content = <<Blank>> \/ new_content = <<Blank>>

\* The loop of utils.py 134 without the "continue" for equal opcodes.
all_opcodes(opcodes) == opcodes

\* "if tag == 'equal': continue" (utils.py 134-136): the opcodes that become
\* change entries.
changed_opcodes(opcodes) ==
    SelectSeq(opcodes, LAMBDA op : op.tag # "equal")

\* DiffResult(header, changes, summary, full_output) as built at utils.py
\* 127 and 210-228: full_output joins the header lines, every change's
\* formatted output and the summary.
DiffResult(header, changes, summary) ==
    [header |-> Join(header),
     changes |-> changes,
     summary |-> summary,
     full_output |-> Join(header
                          \o [k \in 1..Len(changes) |-> changes[k].formatted_output]
                          \o <<summary>>)]

\* The loop over the opcodes (utils.py 134-210).
changes_of(changed, old_lines, new_lines, old_context, new_context, context_level) ==
    [k \in 1..Len(changed) |->
        change_entry(changed[k], old_lines, new_lines,
                     old_context, new_context, context_level)]

\* utils.py 107-228: both files were read and neither is empty.
process_changes(old_content, new_content, old_context, new_context, opcodes, context_level, added, removed) ==
    [result |->
         DiffResult(header_lines(context_level),
                    changes_of(changed_opcodes(opcodes), old_content, new_content,
                               old_context, new_context, context_level),
                    IF changed_opcodes(opcodes) = <<>> THEN NoDifferences
                    ELSE get_summary_string(old_content, new_content, old_context,
                                            new_context, added, removed)),
     locals |-> [old_content |-> old_content, new_content |-> new_content,
                 old_context |-> old_context, new_context |-> new_context,
                 opcodes |-> opcodes]]

\* compare_files (utils.py 83-228): the DiffResult, with the values of the
\* local variables the call computed.
compare_files(old, new, context_level, added, removed) ==
    IF cannot_read(read_file(old), read_file(new))
    THEN [result |-> [header |-> error_msg, changes |-> <<>>,
                      summary |-> EmptyStr, full_output |-> error_msg],
          locals |-> NoLocals]
    ELSE process_changes(read_file(old), read_file(new),
                         get_line_context(read_file(old)),
                         get_line_context(read_file(new)),
                         get_opcodes(read_file(old), read_file(new)),
                         context_level, added, removed)

(* ----------------------- the merge driver's files ---------------------- *)
\* A path without a file, and a file with its text (a sequence of
\* characters).
NoFile == [exists |-> FALSE, text |-> <<>>]
File(text) == [exists |-> TRUE, text |-> text]
Paths == {"base", "ours", "theirs", "output"}
NoStatus == [code |-> -1, raised |-> None, merged_file_string |-> <<>>, reads |-> {}, calls |-> 0]

\* No driver process: nothing typed, no files, nothing installed.
NoDriver ==
    /\ argv = <<>>
    /\ fs = [p \in Paths |-> NoFile]
    /\ env = [openai |-> FALSE, api_key |-> FALSE]
    /\ status = NoStatus

(* -------------------- one source text, analysed ------------------------ *)
NoBlock == [line_num |-> 0, text |-> <<>>]

\* The texts the model types: a block is indented one column deeper than
\* its header, and nothing follows a line that already breaks the syntax.
Typed(lines) ==
    /\ \A i \in 1..(Len(lines) - 1) : lines[i].tok # "bad"
    /\ ValidPrefix(SubSeq(lines, 1, Len(lines) - 1))
    /\ \/ lines[Len(lines)].tok = "bad"
       \/ /\ ValidPrefix(lines)
          /\ \A i \in NonBlank(lines) :
                LET p == Prev(lines, i)
                IN  (p # 0 /\ IsHeader(lines[p])) => lines[i].ind = lines[p].ind + 1

\* The scope index never compares two statements: one statement text is
\* enough for a single source.
SourceLine == {l \in Line : l.tok = "stmt" => l.name = "s1"}

InitIndex ==
    /\ pc = "typing"
    /\ source_code \in {<<l>> : l \in {k \in SourceLine : Typed(<<k>>)}}
    /\ context = <<>>
    /\ block = NoBlock
    /\ old_file = <<>>
    /\ new_file = <<>>
    /\ locals = NoLocals
    /\ result = NoResult
    /\ NoDriver

\* The text grows by one line.
TypeLine(l) ==
    /\ pc = "typing"
    /\ Len(source_code) < MaxLines
    /\ Typed(Append(source_code, l))
    /\ source_code' = Append(source_code, l)
    /\ UNCHANGED <<shell, pc, context, block, old_file, new_file, locals, result>>

GetLineContext ==
    /\ pc = "typing"
    /\ context' = get_line_context(source_code)
    /\ pc' = "indexed"
    /\ UNCHANGED <<shell, source_code, block, old_file, new_file, locals, result>>

\* get_full_context_string for one line of the text at every level, with
\* the line's own entry of the context as ctx.
GetFullContextString(line_num) ==
    /\ pc = "indexed"
    /\ block' = [line_num |-> line_num,
                 text |-> [level \in 0..MaxLevel |->
                             get_full_context_string(source_code, context[line_num],
                                                     line_num, "OLD FILE", level)]]
    /\ pc' = "resolved"
    /\ UNCHANGED <<shell, source_code, context, old_file, new_file, locals, result>>

NextIndex ==
    \/ \E l \in SourceLine : TypeLine(l)
    \/ GetLineContext
    \/ \E line_num \in 1..Len(source_code) : GetFullContextString(line_num)

SpecIndex == InitIndex /\ [][NextIndex]_vars

(* ----------------------- two files, compared --------------------------- *)
InitCompare ==
    /\ pc = "writing"
    /\ source_code = <<>>
    /\ context = <<>>
    /\ block = NoBlock
    /\ old_file = <<>>
    /\ new_file = <<>>
    /\ locals = NoLocals
    /\ result = NoResult
    /\ NoDriver

\* The two files hold at most MaxTotal lines together.
WriteOld(l) ==
    /\ pc = "writing"
    /\ Len(old_file) + Len(new_file) < MaxTotal
    /\ Typed(Append(old_file, l))
    /\ old_file' = Append(old_file, l)
    /\ UNCHANGED <<shell, pc, source_code, context, block, new_file, locals, result>>

WriteNew(l) ==
    /\ pc = "writing"
    /\ Len(old_file) + Len(new_file) < MaxTotal
    /\ Typed(Append(new_file, l))
    /\ new_file' = Append(new_file, l)
    /\ UNCHANGED <<shell, pc, source_code, context, block, old_file, locals, result>>

CompareFiles(context_level) ==
    /\ pc = "writing"
    /\ LET old_functions == FunctionNames(get_line_context(read_file(old_file)))
           new_functions == FunctionNames(get_line_context(read_file(new_file)))
       IN  \E added \in Orderings(new_functions \ old_functions),
              removed \in Orderings(old_functions \ new_functions) :
              LET r == compare_files(old_file, new_file, context_level, added, removed)
              IN  /\ result' = r.result
                  /\ locals' = r.locals
    /\ pc' = "compared"
    /\ UNCHANGED <<shell, source_code, context, block, old_file, new_file>>

NextCompare ==
    \/ \E l \in Line : WriteOld(l)
    \/ \E l \in Line : WriteNew(l)
    \/ \E context_level \in 0..MaxLevel : CompareFiles(context_level)

SpecCompare == InitCompare /\ [][NextCompare]_vars

(* ------------------- one long source text, analysed -------------------- *)
\* A text long enough for the windows around a line to end inside it:
\* module-level statements and at most one one-line function.
LongLine ==
    {[tok |-> "stmt", ind |-> 0, name |-> "s1"],
     [tok |-> "defi", ind |-> 0, name |-> "a"]}

InitWindow ==
    /\ pc = "typing"
    /\ source_code \in {<<l>> : l \in LongLine}
    /\ context = <<>>
    /\ block = NoBlock
    /\ old_file = <<>>
    /\ new_file = <<>>
    /\ locals = NoLocals
    /\ result = NoResult
    /\ NoDriver

TypeLongLine(l) ==
    /\ pc = "typing"
    /\ Len(source_code) < MaxLongLines
    /\ l.tok = "defi" => \A i \in 1..Len(source_code) : source_code[i].tok # "defi"
    /\ source_code' = Append(source_code, l)
    /\ UNCHANGED <<shell, pc, context, block, old_file, new_file, locals, result>>

NextWindow ==
    \/ \E l \in LongLine : TypeLongLine(l)
    \/ GetLineContext
    \/ \E line_num \in 1..Len(source_code) : GetFullContextString(line_num)

SpecWindow == InitWindow /\ [][NextWindow]_vars

(* -------------------------- extract_context ---------------------------- *)
\* line[4:] on a rendered line.  A source line loses its four-character
\* marker (">>> " or "    ") and keeps f"{line_number:3d}: {line_content}";
\* the notice loses its indent; an empty line stays empty.
Strip4(r) ==
    IF r.t = "source" THEN [r EXCEPT !.t = "numbered", !.mark = FALSE]
    ELSE IF r.t = "notice" THEN [r EXCEPT !.t = "[Showing"]
    ELSE IF r.t = "empty" THEN r
    ELSE [r EXCEPT !.t = "other[4:]"]

\* s[a:b] on a list, a >= 0; a negative b counts from the end.
PySlice(s, a, b) ==
    LET hi == IF b < 0 THEN MaxOf(0, Len(s) + b) ELSE MinOf(b, Len(s))
    IN  IF a < hi THEN SubSeq(s, a + 1, hi) ELSE <<>>

\* The loop of utils.py 546-554: the indices (from 0) of the first and the
\* second line equal to the delimiter, -1 for one that is not found.
delimiter_idx(context_only, k) ==
    LET hits == {p \in DOMAIN context_only : context_only[p] = Delimiter}
        after == IF k = 1 \/ hits = {} THEN hits ELSE hits \ {Min(hits)}
    IN  IF after = {} THEN -1 ELSE Min(after) - 1

\* The context a change's tag selects (utils.py 538-541).
context_of(change_dict) ==
    IF change_dict.type \in {"DELETE", "REPLACE"} THEN change_dict.removed_context
    ELSE change_dict.added_context

\* change_dict['context_only'] (utils.py 545-556).
context_only_of(context_text) ==
    LET sliced == PySlice(context_text, delimiter_idx(context_text, 1) + 1,
                          delimiter_idx(context_text, 2))
    IN  Join([k \in 1..Len(sliced) |-> <<Strip4(sliced[k])>>])

\* One iteration of the loop over comparison.changes: the change record
\* gets its context_only (utils.py 537-556).
with_context_only(change_dict) ==
    [type |-> change_dict.type,
     old_lines |-> change_dict.old_lines,
     new_lines |-> change_dict.new_lines,
     removed_content |-> change_dict.removed_content,
     added_content |-> change_dict.added_content,
     removed_context |-> change_dict.removed_context,
     added_context |-> change_dict.added_context,
     formatted_output |-> change_dict.formatted_output,
     context_only |-> context_only_of(context_of(change_dict))]

\* The loop over comparison.changes (utils.py 536-556): a change of another
\* type than DELETE, REPLACE or INSERT raises ValueError.
extract_from(comparison, compare_locals) ==
    IF \E k \in DOMAIN comparison.changes :
           comparison.changes[k].type \notin {"DELETE", "REPLACE", "INSERT"}
    THEN [ends |-> "ValueError", comparison |-> comparison, locals |-> compare_locals]
    ELSE [ends |-> "extracted",
          comparison |->
              [comparison EXCEPT !.changes =
                  [k \in DOMAIN comparison.changes |->
                      with_context_only(comparison.changes[k])]],
          locals |-> compare_locals]

\* The comparison extract_context works on (utils.py 534).
extract_compared(r) == extract_from(r.result, r.locals)

\* extract_context (utils.py 529-556): how the call ends and the comparison
\* whose change records it has extended.  With level < 0 the call reaches
\* sys.exit(1) in a module that does not import sys.
extract_context(old, new, level, added, removed) ==
    IF level < 0
    THEN [ends |-> "NameError", comparison |-> NoResult, locals |-> NoLocals]
    ELSE extract_compared(compare_files(old, new, level, added, removed))

\* extract_context on the two files written so far.
ExtractContext(level) ==
    /\ pc = "writing"
    /\ LET old_functions == FunctionNames(get_line_context(read_file(old_file)))
           new_functions == FunctionNames(get_line_context(read_file(new_file)))
       IN  \E added \in Orderings(new_functions \ old_functions),
              removed \in Orderings(old_functions \ new_functions) :
              LET e == extract_context(old_file, new_file, level, added, removed)
              IN  /\ result' = e.comparison
                  /\ locals' = e.locals
                  /\ pc' = e.ends
    /\ UNCHANGED <<shell, source_code, context, block, old_file, new_file>>

\* The two files hold at most MaxExtractTotal lines together.
WriteOldToExtract(l) ==
    /\ pc = "writing"
    /\ Len(old_file) + Len(new_file) < MaxExtractTotal
    /\ Typed(Append(old_file, l))
    /\ old_file' = Append(old_file, l)
    /\ UNCHANGED <<shell, pc, source_code, context, block, new_file, locals, result>>

WriteNewToExtract(l) ==
    /\ pc = "writing"
    /\ Len(old_file) + Len(new_file) < MaxExtractTotal
    /\ Typed(Append(new_file, l))
    /\ new_file' = Append(new_file, l)
    /\ UNCHANGED <<shell, pc, source_code, context, block, old_file, locals, result>>

NextExtract ==
    \/ \E l \in Line : WriteOldToExtract(l)
    \/ \E l \in Line : WriteNewToExtract(l)
    \/ \E level \in (-1)..MaxLevel : ExtractContext(level)

SpecExtract == InitCompare /\ [][NextExtract]_vars

(* ------------------- a function edited line by line -------------------- *)
\* The old file is the module-level function f followed by the empty line
\* that a final newline leaves in split('\n'); the new file is the old one
\* with statements of f's body replaced.
ScenarioStmts == {"x = 1", "y = 2", "y = 3", "return x + y"}

ScenarioLine == [tok : {"stmt"}, ind : {1}, name : ScenarioStmts]

ScenarioOld ==
    <<[tok |-> "def", ind |-> 0, name |-> "f"],
      [tok |-> "stmt", ind |-> 1, name |-> "x = 1"],
      [tok |-> "stmt", ind |-> 1, name |-> "y = 2"],
      [tok |-> "stmt", ind |-> 1, name |-> "return x + y"],
      Blank>>

InitScenario ==
    /\ pc = "writing"
    /\ source_code = <<>>
    /\ context = <<>>
    /\ block = NoBlock
    /\ old_file = ScenarioOld
    /\ new_file = ScenarioOld
    /\ locals = NoLocals
    /\ result = NoResult
    /\ NoDriver

\* Line i of the new file's function body is replaced by the statement l.
EditNew(i, l) ==
    /\ pc = "writing"
    /\ new_file[i].tok = "stmt"
    /\ new_file' = [new_file EXCEPT ![i] = l]
    /\ UNCHANGED <<shell, pc, source_code, context, block, old_file, locals, result>>

NextScenario ==
    \/ \E i \in 1..Len(new_file), l \in ScenarioLine : EditNew(i, l)
    \/ \E context_level \in 0..MaxLevel : CompareFiles(context_level)

SpecScenario == InitScenario /\ [][NextScenario]_vars

(* ------------- a source line that looks like the delimiter ------------- *)
\* A file whose function f holds a multi-line string literal with a line
\* of the delimiter's 80 characters, followed by a one-line function.  The
\* lines of the literal belong to the statement that opens it: ind is that
\* statement's indentation and name is the line's text.
StringBody == {RuleText, "text"}
StringClose == {"'''", "''' # end"}

RuleFile ==
    <<[tok |-> "def", ind |-> 0, name |-> "f"],
      [tok |-> "stmt", ind |-> 1, name |-> "s = '''"],
      [tok |-> "stmt", ind |-> 1, name |-> RuleText],
      [tok |-> "stmt", ind |-> 1, name |-> "'''"],
      [tok |-> "defi", ind |-> 0, name |-> "g"],
      Blank>>

\* The lines an edit may put in the place of line l: another line of the
\* string, another closing line, another one-line function.
Variants(l) ==
    IF l.name \in StringBody THEN {[l EXCEPT !.name = n] : n \in StringBody \ {l.name}}
    ELSE IF l.name \in StringClose THEN {[l EXCEPT !.name = n] : n \in StringClose \ {l.name}}
    ELSE IF l.tok = "defi" THEN {[l EXCEPT !.name = n] : n \in {"g", "h"} \ {l.name}}
    ELSE {}

\* The lines an edit may delete: a line inside the string, the one-line
\* function.
Removable(l) == l.name \in StringBody \/ l.tok = "defi"

RemoveAt(file, i) == SubSeq(file, 1, i - 1) \o SubSeq(file, i + 1, Len(file))

InitRule ==
    /\ pc = "writing"
    /\ source_code = <<>>
    /\ context = <<>>
    /\ block = NoBlock
    /\ old_file = RuleFile
    /\ new_file = RuleFile
    /\ locals = NoLocals
    /\ result = NoResult
    /\ NoDriver

ReplaceOldLine(i, l) ==
    /\ pc = "writing"
    /\ l \in Variants(old_file[i])
    /\ old_file' = [old_file EXCEPT ![i] = l]
    /\ UNCHANGED <<shell, pc, source_code, context, block, new_file, locals, result>>

ReplaceNewLine(i, l) ==
    /\ pc = "writing"
    /\ l \in Variants(new_file[i])
    /\ new_file' = [new_file EXCEPT ![i] = l]
    /\ UNCHANGED <<shell, pc, source_code, context, block, old_file, locals, result>>

RemoveOldLine(i) ==
    /\ pc = "writing"
    /\ Removable(old_file[i])
    /\ old_file' = RemoveAt(old_file, i)
    /\ UNCHANGED <<shell, pc, source_code, context, block, new_file, locals, result>>

RemoveNewLine(i) ==
    /\ pc = "writing"
    /\ Removable(new_file[i])
    /\ new_file' = RemoveAt(new_file, i)
    /\ UNCHANGED <<shell, pc, source_code, context, block, old_file, locals, result>>

NextRule ==
    \/ \E i \in DOMAIN old_file : \E l \in Variants(old_file[i]) : ReplaceOldLine(i, l)
    \/ \E i \in DOMAIN new_file : \E l \in Variants(new_file[i]) : ReplaceNewLine(i, l)
    \/ \E i \in DOMAIN old_file : RemoveOldLine(i)
    \/ \E i \in DOMAIN new_file : RemoveNewLine(i)
    \/ \E level \in 0..MaxLevel : ExtractContext(level)

SpecRule == InitRule /\ [][NextRule]_vars

(* --------------------------- the merge driver -------------------------- *)
\* Texts are sequences of characters: a letter and a blank are enough to
\* tell empty, blank and non-blank texts apart.
Chars == {"m", " "}

TextsUpTo(n) == UNION {[1..k -> Chars] : k \in 0..n}

\* The contents a file may be created with.
FileTexts == TextsUpTo(1)

\* str.strip(): leading and trailing whitespace removed.
RECURSIVE lstrip(_)
lstrip(text) ==
    IF text # <<>> /\ Head(text) = " " THEN lstrip(Tail(text)) ELSE text

RECURSIVE rstrip(_)
rstrip(text) ==
    IF text # <<>> /\ text[Len(text)] = " "
    THEN rstrip(SubSeq(text, 1, Len(text) - 1)) ELSE text

strip(text) == lstrip(rstrip(text))

\* What the call of the service gives: the output text, of which only the
\* fenced code after "1. ResolvedFile.py:" matters (NoMatch when the text
\* has none), or an exception raised by the call.
NoMatch == [kind |-> "NoMatch", code |-> <<>>]
APIError == [kind |-> "APIError", code |-> <<>>]
OutputTexts == {[kind |-> "fenced", code |-> c] : c \in TextsUpTo(MaxCode)} \cup {NoMatch, APIError}

\* resolved_code (core.py 57-60).
resolved_code(output_text) ==
    IF output_text = NoMatch THEN <<>> ELSE strip(output_text.code)

\* How a call of llm_merge ends: the exception it raises or the value it
\* returns, with the files it has read and the calls of the service made.
Raises(exception, reads) ==
    [raised |-> exception, value |-> <<>>, reads |-> reads, calls |-> 0]

Returns(value, reads, calls) ==
    [raised |-> None, value |-> value, reads |-> reads, calls |-> calls]

\* llm_merge (core.py 6-63).  The client is constructed first, and without
\* an API key its constructor raises; the three files are opened in the
\* order base, ours, theirs, and a missing one raises; equal contents of
\* ours and theirs are returned at once; otherwise the service is called.
llm_merge(base, ours, theirs, files, environment, output_text) ==
    IF ~environment.api_key THEN Raises("OpenAIError", {})
    ELSE IF files[base] = NoFile THEN Raises("FileNotFoundError", {})
    ELSE IF files[ours] = NoFile THEN Raises("FileNotFoundError", {base})
    ELSE IF files[theirs] = NoFile THEN Raises("FileNotFoundError", {base, ours})
    ELSE IF files[ours] = files[theirs] THEN Returns(files[ours].text, {base, ours, theirs}, 0)
    ELSE IF output_text = APIError THEN [Raises("APIError", {base, ours, theirs}) EXCEPT !.calls = 1]
    ELSE Returns(resolved_code(output_text), {base, ours, theirs}, 1)

\* How the process ends and the files it leaves.
Exit(code, merge, files) ==
    [status |-> [code |-> code, raised |-> merge.raised,
                 merged_file_string |-> merge.value,
                 reads |-> merge.reads, calls |-> merge.calls],
     fs |-> files]

\* The rest of main once llm_merge has ended (driver.py 10-15); an
\* exception nobody catches ends the process with status 1.
main_after(merge, output, files) ==
    IF merge.raised # None THEN Exit(1, merge, files)
    ELSE IF merge.value # <<>>
    THEN Exit(0, merge, [files EXCEPT ![output] = File(merge.value)])
    ELSE Exit(1, merge, files)

\* The driver (driver.py 1-15).  Importing llmmerge.core imports openai
\* (driver.py 2, core.py 4), which fails when the package is not installed;
\* sys.argv holds the program's name and the arguments.
main(args, files, environment, output_text) ==
    IF ~environment.openai THEN Exit(1, Raises("ModuleNotFoundError", {}), files)
    ELSE IF Len(args) + 1 # 5 THEN Exit(2, Raises(None, {}), files)
    ELSE main_after(llm_merge(args[1], args[2], args[3], files, environment, output_text),
                    args[4], files)

\* The k-th argument typed on the command line.
Arg(k) ==
    IF k = 1 THEN "base" ELSE IF k = 2 THEN "ours"
    ELSE IF k = 3 THEN "theirs" ELSE "output"

InitDriver ==
    /\ pc = "shell"
    /\ source_code = <<>>
    /\ context = <<>>
    /\ block = NoBlock
    /\ old_file = <<>>
    /\ new_file = <<>>
    /\ locals = NoLocals
    /\ result = NoResult
    /\ NoDriver

\* A file is created with a content.
CreateFile(path, text) ==
    /\ pc = "shell"
    /\ fs[path] = NoFile
    /\ fs' = [fs EXCEPT ![path] = File(text)]
    /\ UNCHANGED <<pc, source_code, context, block, old_file, new_file, locals, result, argv, env, status>>

\* The openai package is installed.
InstallOpenAI ==
    /\ pc = "shell"
    /\ ~env.openai
    /\ env' = [env EXCEPT !.openai = TRUE]
    /\ UNCHANGED <<pc, source_code, context, block, old_file, new_file, locals, result, argv, fs, status>>

\* OPENAI_API_KEY is set.
ExportKey ==
    /\ pc = "shell"
    /\ ~env.api_key
    /\ env' = [env EXCEPT !.api_key = TRUE]
    /\ UNCHANGED <<pc, source_code, context, block, old_file, new_file, locals, result, argv, fs, status>>

\* One more argument is typed.
TypeArg ==
    /\ pc = "shell"
    /\ Len(argv) < MaxArgs
    /\ argv' = Append(argv, Arg(Len(argv) + 1))
    /\ UNCHANGED <<pc, source_code, context, block, old_file, new_file, locals, result, fs, env, status>>

\* The driver runs to its end; output_text is what the service answers if
\* it is called.
RunDriver(output_text) ==
    /\ pc = "shell"
    /\ status' = main(argv, fs, env, output_text).status
    /\ fs' = main(argv, fs, env, output_text).fs
    /\ pc' = "exited"
    /\ UNCHANGED <<source_code, context, block, old_file, new_file, locals, result, argv, env>>

NextDriver ==
    \/ \E path \in Paths, text \in FileTexts : CreateFile(path, text)
    \/ InstallOpenAI
    \/ ExportKey
    \/ TypeArg
    \/ \E output_text \in OutputTexts : RunDriver(output_text)

SpecDriver == InitDriver /\ [][NextDriver]_vars

(* ============================== claims ================================= *)
\* The definitions whose span covers line l, and the innermost of them: the
\* spans of one parse tree are nested or disjoint, so the innermost is the
\* covering definition that starts last.
Covering(tree, l) ==
    {d \in tree.defs : tree.node[d].lineno <= l /\ l <= tree.node[d].end_lineno}

Innermost(tree, l) == Max(Covering(tree, l))

InnermostOfKind(tree, l, kind) ==
    Max({d \in Covering(tree, l) : tree.node[d].kind = kind})

IsBlock(text) == Len(text) >= 2 /\ text[2].t = "title"

\* The line numbers a rendered context shows, in order.
BlockNums(text) ==
    LET src == SelectSeq(text, LAMBDA r : r.t = "source")
    IN  [k \in 1..Len(src) |-> src[k].num]

BlockSet(text) == {text[k].num : k \in {p \in DOMAIN text : text[p].t = "source"}}

Titles(text) == Cardinality({p \in DOMAIN text : text[p].t = "title"})

\* C1: innermost wins.  After get_line_context, every line covered by a
\* definition carries the scope fields written by the innermost definition
\* covering it: inside an inner function 'function' is that function's name
\* and scope is 'function' (not the enclosing method or class); inside an
\* innermost class 'class' is its name and scope is 'class'.
C1_InnermostWins ==
    pc \in {"indexed", "resolved"} =>
        LET tree == ParseTree(source_code)
        IN  \A l \in 1..Len(source_code) :
                Covering(tree, l) # {} =>
                    LET n == tree.node[Innermost(tree, l)]
                    IN  /\ n.kind = "FunctionDef" =>
                              /\ context[l].function = n.name
                              /\ context[l].scope = "function"
                        /\ n.kind = "ClassDef" =>
                              /\ context[l].class = n.name
                              /\ context[l].scope = "class"

\* A class with a method with an inner function of another name, indexed:
\* the inner function's line carries the inner function's name.
C1_Witness ==
    /\ pc = "indexed"
    /\ LET tree == ParseTree(source_code)
       IN  \E g \in tree.defs :
              /\ tree.node[g].kind = "FunctionDef"
              /\ tree.node[g].parent # 0
              /\ tree.node[tree.node[g].parent].kind = "FunctionDef"
              /\ tree.node[tree.node[g].parent].name # tree.node[g].name
              /\ tree.node[tree.node[g].parent].parent # 0
              /\ tree.node[tree.node[tree.node[g].parent].parent].kind = "ClassDef"
              /\ context[g].function = tree.node[g].name
              /\ context[g].scope = "function"

IsText(text) == Len(text) >= 1

AllModule(ctxs) ==
    \A l \in DOMAIN ctxs :
        /\ ctxs[l].scope = "module"
        /\ ctxs[l].function = None
        /\ ctxs[l].class = None

\* C2: get_line_context returns exactly one entry for each line 1..N of the
\* text and no other key; for a text with a syntax error every entry has
\* scope 'module' and no names; and compare_files on such a file returns a
\* DiffResult with header, changes, summary and full_output.
C2_OneEntryPerLine ==
    pc = "compared" =>
        /\ IsText(result.header)
        /\ IsText(result.summary)
        /\ IsText(result.full_output)
        /\ DOMAIN result.changes = 1..Len(result.changes)
        /\ ~cannot_read(read_file(old_file), read_file(new_file)) =>
              /\ DOMAIN locals.old_context = 1..Len(old_file)
              /\ DOMAIN locals.new_context = 1..Len(new_file)
              /\ \A l \in 1..Len(old_file) : locals.old_context[l].content = old_file[l]
              /\ \A l \in 1..Len(new_file) : locals.new_context[l].content = new_file[l]
              /\ ~Valid(old_file) => AllModule(locals.old_context)
              /\ ~Valid(new_file) => AllModule(locals.new_context)
              /\ result.header = Join(header_lines(result.header[6].level))

\* Two lines with a syntax error against a program with a function: the
\* comparison is made and reports a change.
C2_Witness ==
    /\ pc = "compared"
    /\ Len(old_file) = 2
    /\ ~Valid(old_file)
    /\ Valid(new_file)
    /\ FunctionNames(locals.new_context) # {}
    /\ AllModule(locals.old_context)
    /\ result.changes # <<>>
    /\ result.summary # NoDifferences

\* C3: the opcodes compare_files iterates over partition both files: in
\* order, the old ranges [i1,i2) are contiguous from 0 to len(old_lines) and
\* the new ranges [j1,j2) from 0 to len(new_lines); 'equal' pairs identical
\* lines, 'insert' has an empty old range, 'delete' an empty new range.
C3_OpcodesPartition ==
    (pc = "compared" /\ ~cannot_read(read_file(old_file), read_file(new_file))) =>
        LET ops == locals.opcodes
            n == Len(ops)
        IN  /\ n >= 1
            /\ ops[1].i1 = 0 /\ ops[1].j1 = 0
            /\ ops[n].i2 = Len(old_file) /\ ops[n].j2 = Len(new_file)
            /\ \A k \in 1..(n - 1) : ops[k + 1].i1 = ops[k].i2 /\ ops[k + 1].j1 = ops[k].j2
            /\ \A k \in 1..n :
                  /\ ops[k].i1 <= ops[k].i2 /\ ops[k].j1 <= ops[k].j2
                  /\ ops[k].tag \in {"equal", "insert", "delete", "replace"}
                  /\ ops[k].tag = "equal" =>
                        /\ ops[k].i2 - ops[k].i1 = ops[k].j2 - ops[k].j1
                        /\ ops[k].i1 < ops[k].i2
                        /\ \A d \in 1..(ops[k].i2 - ops[k].i1) :
                              old_file[ops[k].i1 + d] = new_file[ops[k].j1 + d]
                  /\ ops[k].tag = "insert" => ops[k].i1 = ops[k].i2 /\ ops[k].j1 < ops[k].j2
                  /\ ops[k].tag = "delete" => ops[k].j1 = ops[k].j2 /\ ops[k].i1 < ops[k].i2
                  /\ ops[k].tag = "replace" => ops[k].i1 < ops[k].i2 /\ ops[k].j1 < ops[k].j2

\* Two lines swapped: a delete, an equal and an insert opcode.
C3_Witness ==
    /\ pc = "compared"
    /\ Len(locals.opcodes) = 3
    /\ locals.opcodes[1].tag = "delete"
    /\ locals.opcodes[2].tag = "equal"
    /\ locals.opcodes[3].tag = "insert"

\* C4 as stated: for any two identical inputs, two empty inputs included,
\* the diff is a single Equal opcode, the summary is "No differences found!"
\* and the changes list is empty.
C4_IdenticalInputs ==
    (pc = "compared" /\ old_file # <<>> /\ old_file = new_file) =>
        /\ result.summary = NoDifferences
        /\ result.changes = <<>>
        /\ locals.opcodes = <<Opcode("equal", 0, Len(old_file), 0, Len(new_file))>>

\* C4 amended: for any two identical non-empty inputs the diff is a single
\* Equal opcode, the summary is "No differences found!" and the changes list
\* is empty; two empty inputs give the "Could not read" result, whose summary
\* is the empty string and for which no diff is computed.
C4_IdenticalNonEmptyInputs ==
    (pc = "compared" /\ old_file # <<>> /\ old_file = new_file) =>
        IF old_file = <<Blank>>
        THEN /\ result.summary = EmptyStr
             /\ result.header = error_msg
             /\ result.changes = <<>>
             /\ locals.opcodes = <<>>
        ELSE /\ result.summary = NoDifferences
             /\ result.changes = <<>>
             /\ locals.opcodes = <<Opcode("equal", 0, Len(old_file), 0, Len(new_file))>>

\* Two identical two-line programs, compared.
C4_Witness ==
    /\ pc = "compared"
    /\ old_file = new_file
    /\ Len(old_file) = 2
    /\ Valid(old_file)
    /\ result.summary = NoDifferences
    /\ Len(locals.opcodes) = 1

\* C5: if either file cannot be read or is empty, compare_files returns a
\* DiffResult whose header and full_output are the message and whose changes
\* list is empty, and neither the scope index nor the diff is computed.
C5_UnreadableOrEmpty ==
    (pc = "compared" /\ (read_file(old_file) = <<Blank>> \/ read_file(new_file) = <<Blank>>)) =>
        /\ result.header = error_msg
        /\ result.full_output = error_msg
        /\ result.changes = <<>>
        /\ result.summary = EmptyStr
        /\ locals = NoLocals

\* The old file cannot be read, the new one holds a program.
C5_Witness ==
    /\ pc = "compared"
    /\ old_file = <<>>
    /\ Len(new_file) >= 2
    /\ Valid(new_file)
    /\ result.header = error_msg

\* C6: for every non-empty source text, every target line and every level
\* >= 2, the context block of get_full_context_string is the entire file,
\* lines 1..N, described as "entire file", also when the text does not parse.
C6_EntireFileAlways ==
    (pc = "resolved" /\ source_code # <<Blank>>) =>
        \A level \in 2..MaxLevel :
            /\ IsBlock(block.text[level])
            /\ block.text[level][2].desc.what = "entire file"
            /\ BlockNums(block.text[level]) = Range(1, Len(source_code))

\* C7: level monotonicity.  For a target line whose context names a class
\* and a function, the lines of the level-0 block are among the lines of the
\* level-1 block, and both are among the lines of the level-2 block.
C7_LevelMonotone ==
    (/\ pc = "resolved"
     /\ context[block.line_num].class # None
     /\ context[block.line_num].function # None) =>
        /\ BlockSet(block.text[0]) \subseteq BlockSet(block.text[1])
        /\ BlockSet(block.text[1]) \subseteq BlockSet(block.text[2])
        /\ BlockSet(block.text[0]) # {}

\* A method's line in a class that holds more than the method, in a file
\* that holds more than the class: three blocks, each larger than the last.
C7_Witness ==
    /\ pc = "resolved"
    /\ context[block.line_num].class # None
    /\ context[block.line_num].function # None
    /\ BlockSet(block.text[0]) # BlockSet(block.text[1])
    /\ BlockSet(block.text[1]) # BlockSet(block.text[2])
    /\ block.line_num \in BlockSet(block.text[0])

\* C10: level 0 selection.  For a target line with its own context, the
\* block is exactly the span of the function enclosing the line when the
\* context names a function (with or without a class), and exactly the span
\* of the class enclosing the line when it names only a class, also when
\* several definitions share a name.
C10_Level0Span ==
    pc = "resolved" =>
        LET t == block.line_num
            ctx == context[t]
            tree == ParseTree(source_code)
            n == IF ctx.function # None
                 THEN tree.node[InnermostOfKind(tree, t, "FunctionDef")]
                 ELSE tree.node[InnermostOfKind(tree, t, "ClassDef")]
        IN  (ctx.function # None \/ ctx.class # None) =>
                BlockNums(block.text[0]) = Range(n.lineno, n.end_lineno)

\* The sections of a change's formatted_output: the lines listed after the
\* REMOVED: (ADDED:) marker, and those of them a context block follows.
SectionStart(fo, marker) ==
    LET ps == {p \in DOMAIN fo : fo[p].t = marker}
    IN  IF ps = {} THEN 0 ELSE Min(ps)

SectionEnd(fo, marker) ==
    IF marker = "REMOVED:" /\ SectionStart(fo, "ADDED:") # 0
    THEN SectionStart(fo, "ADDED:") - 1
    ELSE Len(fo)

RenderingLines(fo, marker) ==
    {fo[p].num : p \in {q \in SectionStart(fo, marker)..SectionEnd(fo, marker) :
                          /\ q >= 1
                          /\ fo[q].t = "line"
                          /\ q + 2 <= Len(fo)
                          /\ fo[q + 1].t = "empty"
                          /\ fo[q + 2].t = "title"}}

ContextKey(ctxs, l, level) == <<ctxs[l].class, ctxs[l].function, level>>

\* One side of a change: its lines lo..hi with the contexts ctxs, the joined
\* context text and the marker of its section.  When every line has the
\* same key exactly one block is rendered; in general a line renders a block
\* exactly when it is the first line of the change with its key.
OneBlockPerKey(fo, text, ctxs, lo, hi, marker, level) ==
    LET keys == {ContextKey(ctxs, l, level) : l \in lo..hi}
        firsts == {l \in lo..hi :
                     \A m \in lo..(l - 1) :
                         ContextKey(ctxs, m, level) # ContextKey(ctxs, l, level)}
    IN  /\ Cardinality(keys) = 1 => Titles(text) = 1
        /\ RenderingLines(fo, marker) = firsts

\* C8: context-block idempotence, for the removed side of DELETE/REPLACE and
\* the added side of INSERT/REPLACE of every change.
C8_OneBlockPerKey ==
    pc = "compared" =>
        \A k \in DOMAIN result.changes :
            LET c == result.changes[k]
                level == result.header[6].level
            IN  /\ c.type \in {"DELETE", "REPLACE"} =>
                      OneBlockPerKey(c.formatted_output, c.removed_context,
                                     locals.old_context, c.old_lines[1], c.old_lines[2],
                                     "REMOVED:", level)
                /\ c.type \in {"INSERT", "REPLACE"} =>
                      OneBlockPerKey(c.formatted_output, c.added_context,
                                     locals.new_context, c.new_lines[1], c.new_lines[2],
                                     "ADDED:", level)

\* A text holds a delimited block: a delimiter, source lines, a delimiter.
HasBlock(text) ==
    \E p, q, r \in DOMAIN text :
        /\ p < q /\ q < r
        /\ text[p].t = "delim"
        /\ text[q].t = "source"
        /\ text[r].t = "delim"

\* C9: for every non-equal opcode, each populated side of the change record
\* (removed_context for delete/replace, added_context for insert/replace)
\* holds a non-empty delimited context block, at every level.
C9_AlwaysSomeBlock ==
    pc = "compared" =>
        \A k \in DOMAIN result.changes :
            LET c == result.changes[k]
            IN  /\ c.type \in {"DELETE", "REPLACE"} => HasBlock(c.removed_context)
                /\ c.type \in {"INSERT", "REPLACE"} => HasBlock(c.added_context)

\* The definitions that lie in the span of no other definition, in source
\* order.
TopLevel(tree) == SortedSeq({d \in tree.defs : Covering(tree, d) = {d}})

\* C11: level 1, target line in a function and in no class.  When the
\* function enclosing the line is a top-level definition, the block runs
\* from the first line of the top-level definition before it (its own if
\* there is none) to the last line of the top-level definition after it
\* (its own if there is none).
C11_Level1Around ==
    pc = "resolved" =>
        LET t == block.line_num
            ctx == context[t]
            tree == ParseTree(source_code)
            top == TopLevel(tree)
        IN  (ctx.function # None /\ ctx.class = None) =>
                \A k \in 1..Len(top) :
                    top[k] = InnermostOfKind(tree, t, "FunctionDef") =>
                        BlockNums(block.text[1]) =
                            Range(tree.node[top[MaxOf(1, k - 1)]].lineno,
                                  tree.node[top[MinOf(Len(top), k + 1)]].end_lineno)

\* C12: the window fallbacks are clamped to the file.  For a target line t
\* with no enclosing class or function in a text of N lines that parses,
\* the level-1 block is exactly lines max(1, t-20)..min(N, t+20) and the
\* level-0 block exactly lines max(1, t-5)..min(N, t+5); every line number
\* of the blocks is in 1..N and t is in both.
C12_WindowsClamped ==
    (/\ pc = "resolved"
     /\ Valid(source_code)
     /\ context[block.line_num].function = None
     /\ context[block.line_num].class = None) =>
        LET t == block.line_num
            N == Len(source_code)
        IN  /\ BlockNums(block.text[1]) =
                   Range(MaxOf(1, t - Level1Window), MinOf(N, t + Level1Window))
            /\ BlockNums(block.text[0]) =
                   Range(MaxOf(1, t - Level0Window), MinOf(N, t + Level0Window))
            /\ BlockSet(block.text[0]) \cup BlockSet(block.text[1]) \subseteq 1..N
            /\ t \in BlockSet(block.text[0]) \cap BlockSet(block.text[1])

\* A module-level line so far down a text that both windows start after the
\* first line, and the level-0 window ends before the last.
C12_Witness ==
    /\ pc = "resolved"
    /\ context[block.line_num].function = None
    /\ context[block.line_num].class = None
    /\ block.line_num > Level1Window + 1
    /\ BlockNums(block.text[1])[1] = block.line_num - Level1Window
    /\ BlockNums(block.text[0])[1] = block.line_num - Level0Window
    /\ Len(BlockNums(block.text[0])) < Len(BlockNums(block.text[1]))
    /\ Len(BlockNums(block.text[1])) < Len(source_code)

\* The lines of a rendered text between its first and its second delimiter
\* line: the interior of its first context block.
Interior(text) ==
    LET ds == {p \in DOMAIN text : text[p].t = "delim"}
        first == Min(ds)
        second == Min(ds \ {first})
    IN  SubSeq(text, first + 1, second - 1)

\* The source lines a sequence of rendered lines shows, as plain text.
RawLines(rendered) ==
    LET src == SelectSeq(rendered, LAMBDA r : r.t = "source")
    IN  [k \in 1..Len(src) |-> [TextLine("raw") EXCEPT !.content = src[k].content]]

\* C13: extraction round trip.  For every change record whose selected
\* context holds a rendered block, context_only is exactly the source lines
\* that block shows, as plain text: no delimiter, no marker, no line number
\* and no size notice.
C13_RawContext ==
    pc = "extracted" =>
        \A k \in DOMAIN result.changes :
            HasBlock(context_of(result.changes[k])) =>
                result.changes[k].context_only =
                    RawLines(Interior(context_of(result.changes[k])))

\* C17: the malformed change type is the only fatal path.  For any two
\* files and any level >= 0, extract_context ends without raising, every
\* change record has one of the types INSERT, DELETE, REPLACE and has its
\* context_only set; ValueError is raised only for a record of another type.
C17_OnlyFatalPath ==
    [][/\ \A level \in 0..MaxLevel :
             ExtractContext(level) =>
                 /\ pc' = "extracted"
                 /\ \A k \in DOMAIN result'.changes :
                       /\ result'.changes[k].type \in {"INSERT", "DELETE", "REPLACE"}
                       /\ "context_only" \in DOMAIN result'.changes[k]
       /\ pc' = "ValueError" =>
             \E k \in DOMAIN result'.changes :
                 result'.changes[k].type \notin {"INSERT", "DELETE", "REPLACE"}]_vars

\* A deletion whose context block was extracted: the change record carries
\* a context_only that is not empty.
C17_Witness ==
    /\ pc = "extracted"
    /\ Len(result.changes) = 1
    /\ result.changes[1].type = "DELETE"
    /\ result.changes[1].context_only # EmptyStr

\* The line of a summary with the given title (a record without a title if
\* the summary has no such line).
SummaryLine(summary, title) ==
    LET ps == {p \in DOMAIN summary : summary[p].t = title}
    IN  IF ps = {} THEN TextLine("") ELSE summary[Min(ps)]

NamesIn(ctxs, field) == {ctxs[l][field] : l \in DOMAIN ctxs} \ {None}

SetOf(seq) == {seq[k] : k \in DOMAIN seq}

\* C14: the summary of a comparison with at least one change.  The
\* difference is len(new_lines) - len(old_lines) with an explicit sign; the
\* function and class counts are the numbers of distinct names in each
\* side's context; "Added functions" lists exactly the function names of the
\* new context that are not in the old one and "Removed functions" the
\* reverse, by name only, each name once, and each line is there only when
\* its set is not empty.
C14_Summary ==
    (pc = "compared" /\ result.changes # <<>>) =>
        LET s == result.summary
            old_f == NamesIn(locals.old_context, "function")
            new_f == NamesIn(locals.new_context, "function")
            added_line == SummaryLine(s, "Added functions:")
            removed_line == SummaryLine(s, "Removed functions:")
        IN  /\ SummaryLine(s, "Difference: lines").num = Len(new_file) - Len(old_file)
            /\ SummaryLine(s, "Difference: lines").label =
                   (IF Len(new_file) >= Len(old_file) THEN "+" ELSE "-")
            /\ SummaryLine(s, "Functions:").range =
                   <<Cardinality(old_f), Cardinality(new_f), 0, 0>>
            /\ SummaryLine(s, "Classes:").range =
                   <<Cardinality(NamesIn(locals.old_context, "class")),
                     Cardinality(NamesIn(locals.new_context, "class")), 0, 0>>
            /\ (added_line.t = "Added functions:") = (new_f \ old_f # {})
            /\ SetOf(added_line.names) = new_f \ old_f
            /\ Len(added_line.names) = Cardinality(new_f \ old_f)
            /\ (removed_line.t = "Removed functions:") = (old_f \ new_f # {})
            /\ SetOf(removed_line.names) = old_f \ new_f
            /\ Len(removed_line.names) = Cardinality(old_f \ new_f)

\* A method of the old file's class is a module-level function of the new
\* file, which also has a function the old file lacks: only the latter is
\* listed as added, and nothing as removed.
C14_Witness ==
    /\ pc = "compared"
    /\ result.changes # <<>>
    /\ \E i \in DOMAIN locals.old_context, j \in DOMAIN locals.new_context :
          /\ locals.old_context[i].function # None
          /\ locals.old_context[i].function = locals.new_context[j].function
          /\ locals.old_context[i].class # None
          /\ locals.new_context[j].class = None
    /\ Len(SummaryLine(result.summary, "Added functions:").names) = 1
    /\ SummaryLine(result.summary, "Removed functions:").t = ""

\* The new file of the scenario: the old one with "y = 3" on line 3.
ScenarioNew ==
    [ScenarioOld EXCEPT ![3] = [tok |-> "stmt", ind |-> 1, name |-> "y = 3"]]

\* The outcome of the scenario with the context blocks on lines 1..last:
\* one change, a REPLACE of old line 3 by new line 3 (ranges [2,3)), the
\* level-0 context of both sides lines 1..last, and a difference of +0.
ScenarioOutcome(last) ==
    (/\ pc = "compared"
     /\ old_file = ScenarioOld
     /\ new_file = ScenarioNew
     /\ result.header[6].level = 0) =>
        /\ Len(result.changes) = 1
        /\ result.changes[1].type = "REPLACE"
        /\ result.changes[1].old_lines = <<3, 3>>
        /\ result.changes[1].new_lines = <<3, 3>>
        /\ SelectSeq(locals.opcodes, LAMBDA op : op.tag # "equal")
               = <<Opcode("replace", 2, 3, 2, 3)>>
        /\ BlockNums(result.changes[1].removed_context) = Range(1, last)
        /\ BlockNums(result.changes[1].added_context) = Range(1, last)
        /\ Titles(result.changes[1].removed_context) = 1
        /\ result.changes[1].removed_context[2].desc.what = "function"
        /\ SummaryLine(result.summary, "Difference: lines").num = 0
        /\ SummaryLine(result.summary, "Difference: lines").label = "+"

\* C15 as stated: in the scenario the level-0 context block of both sides
\* is lines 1-5, the five lines of the file.
C15_Scenario == ScenarioOutcome(Len(ScenarioOld))

\* C15 amended: in the scenario the level-0 context block of both sides is
\* the span of f, lines 1-4; the empty fifth line that follows the final
\* newline is not part of the function.  One REPLACE change over old range
\* [2,3) and new range [2,3), and a difference of +0.
C15_ScenarioSpanOfF == ScenarioOutcome(Len(ScenarioOld) - 1)

\* The scenario compared at level 0.
C15_Witness ==
    /\ pc = "compared"
    /\ old_file = ScenarioOld
    /\ new_file = ScenarioNew
    /\ result.header[6].level = 0
    /\ Len(result.changes) = 1

\* The result of the call for every order in which the two sets of function
\* names may be iterated.
ResultsOf(old, new, level) ==
    {compare_files(old, new, level, added, removed).result :
        added \in Orderings(FunctionNames(get_line_context(read_file(new)))
                            \ FunctionNames(get_line_context(read_file(old)))),
        removed \in Orderings(FunctionNames(get_line_context(read_file(old)))
                              \ FunctionNames(get_line_context(read_file(new))))}

\* C16: a comparison is a function of the two texts and the level: the
\* result of a run is the only result a run on these texts at this level
\* can return, the order of the listed function names included.
C16_Deterministic ==
    (pc = "compared" /\ locals # NoLocals) =>
        ResultsOf(old_file, new_file, result.header[6].level) = {result}

\* The positions of the lines of one kind in a rendered text.
LinesOfKind(text, kind) == {p \in DOMAIN text : text[p].t = kind}

\* C18: every context block rendered for a line with the line's own context
\* contains the line; the line is the only one marked ">>> ", every other
\* source line has the four-space prefix, and the source lines stand between
\* exactly two delimiter lines, one before the first and one after the last.
C18_TargetMarked ==
    pc = "resolved" =>
        \A level \in 0..MaxLevel :
            LET text == block.text[level]
                marked == {p \in LinesOfKind(text, "source") : text[p].mark}
            IN  IsBlock(text) =>
                    /\ block.line_num \in BlockSet(text)
                    /\ Cardinality(marked) = 1
                    /\ \A p \in marked : text[p].num = block.line_num
                    /\ Cardinality(LinesOfKind(text, "delim")) = 2
                    /\ \A p \in LinesOfKind(text, "source") :
                          /\ Min(LinesOfKind(text, "delim")) < p
                          /\ p < Max(LinesOfKind(text, "delim"))

\* The context a change's type makes extract_context read: the added side
\* for INSERT, the removed side for DELETE and REPLACE.
SideRead(c) == IF c.type = "INSERT" THEN c.added_context ELSE c.removed_context

\* The first context block of a rendered text, by its layout: it opens with
\* the delimiter under the first title and closes with the last delimiter
\* above the second title (the last of the text when there is one title).
FirstBlockOpen(text) == Min(LinesOfKind(text, "title")) + 1

FirstBlockClose(text) ==
    LET later == LinesOfKind(text, "title") \ {Min(LinesOfKind(text, "title"))}
        stop == IF later = {} THEN Len(text) + 1 ELSE Min(later)
    IN  Max({p \in LinesOfKind(text, "delim") : p < stop})

\* C19: whatever the source holds, a line of the delimiter's characters
\* included, the first two lines of the context equal to the delimiter are
\* the opening and the closing delimiter of its first block, and
\* context_only is the interior of that block, line for line; later blocks
\* of the side and the other side of a REPLACE add nothing to it.
C19_FirstBlockOnly ==
    pc = "extracted" =>
        \A k \in DOMAIN result.changes :
            LET c == result.changes[k]
                text == SideRead(c)
                open == FirstBlockOpen(text)
                close == FirstBlockClose(text)
                equal == {p \in DOMAIN text : text[p] = Delimiter}
            IN  LinesOfKind(text, "title") # {} =>
                    /\ Min(equal) = open
                    /\ Min(equal \ {open}) = close
                    /\ Len(c.context_only) = close - open - 1
                    /\ \A p \in 1..(close - open - 1) :
                          /\ c.context_only[p].num = text[open + p].num
                          /\ c.context_only[p].content = text[open + p].content

\* A REPLACE whose removed side shows two blocks, the first of them with a
\* source line of the delimiter's characters, and whose added side has a
\* block of its own.
C19_Witness ==
    /\ pc = "extracted"
    /\ \E k \in DOMAIN result.changes :
          LET c == result.changes[k]
          IN  /\ c.type = "REPLACE"
              /\ Titles(c.removed_context) = 2
              /\ Titles(c.added_context) >= 1
              /\ \E p \in DOMAIN c.context_only :
                    c.context_only[p].content.name = RuleText

\* llm_merge has returned a non-empty string.
ReturnedNonEmpty(s) == s.raised = None /\ s.merged_file_string # <<>>

\* C20: the driver's outcome.  With four arguments the output file is
\* written exactly when llm_merge returns a non-empty string, and the exit
\* status is 0 in that case and 1 otherwise, with the files untouched; with
\* another argument count the status is 2 and no file was read.  When ours
\* and theirs hold the same content the service is not called, and the run
\* ends with status 0 and that content in the output file whenever the
\* content is not empty.
C20_DriverOutcome ==
    [][\A output_text \in OutputTexts :
          RunDriver(output_text) =>
              /\ Len(argv) # 4 =>
                    status'.code = 2 /\ status'.reads = {} /\ fs' = fs
              /\ (Len(argv) = 4 /\ ReturnedNonEmpty(status')) =>
                    /\ status'.code = 0
                    /\ fs' = [fs EXCEPT ![argv[4]] = File(status'.merged_file_string)]
              /\ (Len(argv) = 4 /\ ~ReturnedNonEmpty(status')) =>
                    status'.code = 1 /\ fs' = fs
              /\ (/\ Len(argv) = 4
                  /\ fs[argv[2]].exists /\ fs[argv[3]].exists
                  /\ fs[argv[2]].text = fs[argv[3]].text) =>
                    /\ status'.calls = 0
                    /\ fs[argv[2]].text # <<>> =>
                          /\ status'.code = 0
                          /\ fs'[argv[4]] = File(fs[argv[2]].text)]_vars

====
